---- MODULE Spec2Model ----
(***************************************************************************)
(* stl2scad: the mesh topology engine of src/stl2scad.py as a state        *)
(* machine.  One run of main() takes the files of the command line in      *)
(* turn; each file is deduplicated (mesh2scadDedup), optionally checked    *)
(* (checkSurfaceIntegrity), optionally split into disjoint surfaces        *)
(* (splitDisjointObjects, collectSurfaceFaces, surface2polyhedronObject)   *)
(* and written (model2File).                                               *)
(*                                                                         *)
(* Conventions.  Python lists and numpy arrays are TLA+ sequences; the     *)
(* VALUES they hold (point indexes, face indexes, positions) stay 0-based  *)
(* as in the source, so element i of a list l is l[i + 1].  A 64-bit edge  *)
(* hash is written as its four 16-bit limbs.  A string is the sequence of  *)
(* its character codes.  Diagnostic printing that keeps no state           *)
(* (--verbose, elapsed times) is left out.                                 *)
(***************************************************************************)
EXTENDS Integers, Sequences, FiniteSets, TLC

\* ------------------------------------------------------------------ bounds
\* most triangles in one input mesh
MaxFaces == 2
\* most distinct vertex coordinates in one enumerated input mesh
MaxPoints == 3
\* most files on one command line
MaxFiles == 2
\* largest set of which every iteration order is tried
MaxShuffled == 4

\* ------------------------------------------------------- general helpers
Range(s) == {s[i] : i \in DOMAIN s}

\* list.index ( x ): position (0-based) of the first entry equal to x
ListIndex(l, x) == (CHOOSE i \in DOMAIN l : l[i] = x /\ \A j \in 1..(i - 1) : l[j] # x) - 1

\* list.count ( x )
ListCount(l, x) == Cardinality({i \in DOMAIN l : l[i] = x})

\* np.reshape ( a, -1 ) of a list of rows of width w: row-major flattening
Flatten(rows, w) ==
    [i \in 1..(w * Len(rows)) |-> rows[((i - 1) \div w) + 1][((i - 1) % w) + 1]]

IntLess(a, b) == a < b

\* character-wise string comparison, a proper prefix first (numpy pads with NUL)
RECURSIVE StrLess(_, _)
StrLess(s, t) ==
    IF t = <<>> THEN FALSE
    ELSE IF s = <<>> THEN TRUE
    ELSE IF s[1] # t[1] THEN s[1] < t[1]
    ELSE StrLess(Tail(s), Tail(t))

\* the order numpy sorts by: numbers by value, strings character-wise
NpLess(dtype, a, b) == IF dtype = "int" THEN IntLess(a, b) ELSE StrLess(a, b)

\* the elements of S in ascending order
SortSet(S, dtype) ==
    [k \in 1..Cardinality(S) |->
        CHOOSE x \in S : Cardinality({y \in S : NpLess(dtype, y, x)}) = k - 1]

\* the orders in which a python set of numbers can be iterated: any order for
\* a set of at most MaxShuffled elements; of a larger set only the ascending
\* order and the descending one are taken
SetOrders(S) ==
    IF Cardinality(S) <= MaxShuffled
    THEN {o \in [1..Cardinality(S) -> S] : \A i, j \in DOMAIN o : o[i] = o[j] => i = j}
    ELSE {SortSet(S, "int"),
          [k \in 1..Cardinality(S) |-> SortSet(S, "int")[Cardinality(S) + 1 - k]]}

\* np.unique ( ar, return_index = True, return_inverse = True ): the sorted
\* unique values, for each the index of its first occurrence in ar, and for
\* each entry of ar the index of its value among the unique values
NpUnique(ar, dtype) ==
    LET unq == SortSet(Range(ar), dtype)
    IN  [ unique  |-> unq,
          index   |-> [j \in DOMAIN unq |-> ListIndex(ar, unq[j])],
          inverse |-> [i \in DOMAIN ar |-> ListIndex(unq, ar[i])] ]

\* ---------------------------------------------------------------- point2str
\* significant digits of '%.9g'
Precision == 9

RECURSIVE Pow10(_)
Pow10(n) == IF n = 0 THEN 1 ELSE 10 * Pow10(n - 1)

RECURSIVE NumDigits(_)
NumDigits(n) == IF n < 10 THEN 1 ELSE 1 + NumDigits(n \div 10)

\* decimal digits of n >= 0 as characters ('0' is 48)
RECURSIVE DigitChars(_)
DigitChars(n) ==
    IF n < 10 THEN <<48 + n>> ELSE Append(DigitChars(n \div 10), 48 + (n % 10))

\* %g removes the trailing zeros of the mantissa
RECURSIVE StripZeros(_)
StripZeros(ds) ==
    IF Len(ds) > 1 /\ ds[Len(ds)] = 48 THEN StripZeros(SubSeq(ds, 1, Len(ds) - 1))
    ELSE ds

\* '%.9g' % c for an integer-valued coordinate c: up to Precision digits are
\* written out, a longer value is rounded (half to even) to Precision
\* significant digits and written as d.ddd...e+XX
RECURSIVE Fmt9g(_)
Fmt9g(c) ==
    IF c < 0 THEN <<45>> \o Fmt9g(0 - c)
    ELSE IF NumDigits(c) <= Precision THEN DigitChars(c)
    ELSE LET d     == NumDigits(c)
             scale == Pow10(d - Precision)
             q     == c \div scale
             r     == c % scale
             up    == (2 * r > scale) \/ (2 * r = scale /\ q % 2 = 1)
             m0    == IF up THEN q + 1 ELSE q
             carry == m0 = Pow10(Precision)
             m     == IF carry THEN m0 \div 10 ELSE m0
             x     == IF carry THEN d ELSE d - 1
             ds    == StripZeros(DigitChars(m))
             mant  == IF Len(ds) = 1 THEN ds ELSE <<ds[1], 46>> \o Tail(ds)
             ex    == IF x < 10 THEN <<48, 48 + x>> ELSE DigitChars(x)
         IN  mant \o <<101, 43>> \o ex

\* '[x, y, z]'
point2str(pnt) ==
    <<91>> \o Fmt9g(pnt[1]) \o <<44, 32>> \o Fmt9g(pnt[2]) \o <<44, 32>>
           \o Fmt9g(pnt[3]) \o <<93>>

\* ----------------------------------------------------------- mesh2scadDedup
\* mesh2scadDedup taking the rows of the point table by facePoints, not by vectorIdx
mesh2scadDedupRowsByInverse(msh) ==
    LET ptVectors == Flatten(msh, 3)
        ptStrings == [i \in DOMAIN ptVectors |-> point2str(ptVectors[i])]
        facePoints == NpUnique(ptStrings, "str").inverse
    IN  [ points |-> [j \in DOMAIN facePoints |-> ptVectors[facePoints[j] + 1]],
          faces  |-> [f \in 1..(Len(facePoints) \div 3) |->
                        <<facePoints[3 * f - 2], facePoints[3 * f - 1], facePoints[3 * f]>>] ]

\* mesh2scadDedup taking for a row the last vertex with its encoding, not the first
mesh2scadDedupLastOccurrence(msh) ==
    LET ptVectors == Flatten(msh, 3)
        ptStrings == [i \in DOMAIN ptVectors |-> point2str(ptVectors[i])]
        u          == NpUnique(ptStrings, "str")
        facePoints == u.inverse
        lastIdx(j) == CHOOSE i \in DOMAIN ptStrings :
                          /\ ptStrings[i] = u.unique[j]
                          /\ \A k \in DOMAIN ptStrings : ptStrings[k] = u.unique[j] => k <= i
    IN  [ points |-> [j \in DOMAIN u.unique |-> ptVectors[lastIdx(j)]],
          faces  |-> [f \in 1..(Len(facePoints) \div 3) |->
                        <<facePoints[3 * f - 2], facePoints[3 * f - 1], facePoints[3 * f]>>] ]

\* mesh2scadDedup grouping one facet too few
mesh2scadDedupDropFacet(msh) ==
    LET ptVectors == Flatten(msh, 3)
        ptStrings == [i \in DOMAIN ptVectors |-> point2str(ptVectors[i])]
        u          == NpUnique(ptStrings, "str")
        facePoints == u.inverse
    IN  [ points |-> [j \in DOMAIN u.index |-> ptVectors[u.index[j] + 1]],
          faces  |-> [f \in 1..((Len(facePoints) \div 3) - 1) |->
                        <<facePoints[3 * f - 2], facePoints[3 * f - 1], facePoints[3 * f]>>] ]

\* the object appended to mdl [ 'objects' ] for the mesh vectors msh
\* ( a list of facets, each a list of 3 vertices )
mesh2scadDedup(msh) ==
    LET ptVectors == Flatten(msh, 3)
        ptStrings == [i \in DOMAIN ptVectors |-> point2str(ptVectors[i])]
        u          == NpUnique(ptStrings, "str")
        vectorIdx  == u.index
        facePoints == u.inverse
    IN  [ points |-> [j \in DOMAIN vectorIdx |-> ptVectors[vectorIdx[j] + 1]],
          faces  |-> [f \in 1..(Len(facePoints) \div 3) |->
                        <<facePoints[3 * f - 2], facePoints[3 * f - 1], facePoints[3 * f]>>] ]

\* ------------------------------------------------------- edge hashes
\* A 64-bit word (a numpy int64, an item of an array of type 'L', a python
\* int below 2^64) is written as its four 16-bit limbs, most significant
\* first.
Limbs == 0..65535

\* the int64 of a point index that the model holds as a number
Word64(n) == <<0, 0, n \div 65536, n % 65536>>

\* the number a word with an empty high half stands for
WordIndex(w) == w[3] * 65536 + w[4]

\* x << 32 on 64 bits: the high half is shifted out
ShiftLeft32(w) == <<w[3], w[4], 0, 0>>

\* x | y on two limbs
RECURSIVE BitOr(_, _)
BitOr(x, y) ==
    IF x = 0 THEN y
    ELSE IF y = 0 THEN x
    ELSE (IF x % 2 = 1 \/ y % 2 = 1 THEN 1 ELSE 0) + 2 * BitOr(x \div 2, y \div 2)

\* x | y on two words
WordOr(w, v) == <<BitOr(w[1], v[1]), BitOr(w[2], v[2]), BitOr(w[3], v[3]), BitOr(w[4], v[4])>>

\* an int64 with its sign bit set: array.array ( 'L', ... ) takes no negative value
Negative(w) == w[1] >= 32768

\* a << 32 | b
PackHash(a, b) == WordOr(ShiftLeft32(a), b)

\* oneFace [ i ] << 32 | oneFace [ j ] for two point indexes of a face table
EdgeHash(a, b) == PackHash(Word64(a), Word64(b))

\* hsh >> 32 and hsh & 0xffffffff
HashHigh(hsh) == <<0, 0, hsh[1], hsh[2]>>
HashLow(hsh) == <<0, 0, hsh[3], hsh[4]>>

\* hashedFaceEdges with the third edge of a face taken from its first corner
\* to its last
hashedFaceEdgesThirdForward(faces) ==
    [i \in DOMAIN faces |->
        << EdgeHash(faces[i][1], faces[i][2]),
           EdgeHash(faces[i][2], faces[i][3]),
           EdgeHash(faces[i][1], faces[i][3]) >>]

\* splitDisjointObjects: the three edge hashes of every face, in face order
hashedFaceEdges(faces) ==
    [i \in DOMAIN faces |->
        << EdgeHash(faces[i][1], faces[i][2]),
           EdgeHash(faces[i][2], faces[i][3]),
           EdgeHash(faces[i][3], faces[i][1]) >>]

\* splitDisjointObjects: edgeHashes, by face and flattened by edge
EdgeHashes(faces) ==
    [ byFace |-> hashedFaceEdges(faces),
      byEdge |-> Flatten(hashedFaceEdges(faces), 3) ]

\* ------------------------------------------------- surface collection
\* what getAdjacentFace gives: None, a face number, or ValueError raised by
\* list.index when the reverse edge is nowhere in the object
NoFace == [kind |-> "None", face |-> 0]
Raised == [kind |-> "ValueError", face |-> 0]
Face(n) == [kind |-> "face", face |-> n]

\* getAdjacentFace with the position in byEdge divided by 4, not by 3
getAdjacentFaceWidth4(sf, edgDt, idx) ==
    LET edgHash     == sf.edgehash[idx + 1]
        reverseHash == PackHash(HashLow(edgHash), HashHigh(edgHash))
    IN  IF reverseHash \in Range(sf.edgehash) THEN NoFace
        ELSE IF reverseHash \notin Range(edgDt.byEdge) THEN Raised
        ELSE Face(ListIndex(edgDt.byEdge, reverseHash) \div 4)

\* getAdjacentFace looking for the hash of the edge itself, its halves not swapped
getAdjacentFaceNoSwap(sf, edgDt, idx) ==
    LET edgHash     == sf.edgehash[idx + 1]
        reverseHash == PackHash(HashHigh(edgHash), HashLow(edgHash))
    IN  IF reverseHash \in Range(sf.edgehash) THEN NoFace
        ELSE IF reverseHash \notin Range(edgDt.byEdge) THEN Raised
        ELSE Face(ListIndex(edgDt.byEdge, reverseHash) \div 3)

getAdjacentFace(sf, edgDt, idx) ==
    LET edgHash     == sf.edgehash[idx + 1]
        reverseEdge == <<HashLow(edgHash), HashHigh(edgHash)>>
        reverseHash == PackHash(reverseEdge[1], reverseEdge[2])
    IN  IF reverseHash \in Range(sf.edgehash) THEN NoFace
        ELSE IF reverseHash \notin Range(edgDt.byEdge) THEN Raised
        ELSE Face(ListIndex(edgDt.byEdge, reverseHash) \div 3)

\* addFaceAndEdges without the test for a face that is part of the surface already
addFaceAndEdgesNoMembershipTest(sf, faceNum, edgDt) ==
    IF faceNum.kind = "None" THEN sf
    ELSE [ faceindex |-> sf.faceindex \cup {faceNum.face},
           edgehash  |-> sf.edgehash \o edgDt.byFace[faceNum.face + 1] ]

\* the working surface after addFaceAndEdges ( sf, faceNum, edgDt )
addFaceAndEdges(sf, faceNum, edgDt) ==
    IF faceNum.kind = "None" THEN sf
    ELSE IF faceNum.face \in sf.faceindex THEN sf
    ELSE [ faceindex |-> sf.faceindex \cup {faceNum.face},
           edgehash  |-> sf.edgehash \o edgDt.byFace[faceNum.face + 1] ]

EmptySurface == [faceindex |-> {}, edgehash |-> <<>>]

\* ------------------------------------------------ surface2polyhedronObject
\* surface2polyhedronObject leaving the point references of the faces as they were
surface2polyhedronObjectNoRemap(sf, o, order) ==
    LET surfaceEdges    == [i \in DOMAIN sf.edgehash |->
                              <<WordIndex(HashHigh(sf.edgehash[i])), WordIndex(HashLow(sf.edgehash[i]))>>]
        uniqueEndPoints == NpUnique(Flatten(surfaceEdges, 2), "int").unique
    IN  [ points |-> [k \in DOMAIN uniqueEndPoints |-> o.points[uniqueEndPoints[k] + 1]],
          faces  |-> [n \in DOMAIN order |-> [c \in 1..3 |-> o.faces[order[n] + 1][c]]] ]

\* order is the order in which the set sf [ 'faceindex' ] is iterated
surface2polyhedronObject(sf, o, order) ==
    LET surfaceEdges    == [i \in DOMAIN sf.edgehash |->
                              <<WordIndex(HashHigh(sf.edgehash[i])), WordIndex(HashLow(sf.edgehash[i]))>>]
        uniqueEndPoints == NpUnique(Flatten(surfaceEdges, 2), "int").unique
    IN  [ points |-> [k \in DOMAIN uniqueEndPoints |-> o.points[uniqueEndPoints[k] + 1]],
          faces  |-> [n \in DOMAIN order |->
                        [c \in 1..3 |-> ListIndex(uniqueEndPoints, o.faces[order[n] + 1][c])]] ]

\* ---------------------------------------------------------- the validator
SeqMin(s) == CHOOSE m \in Range(s) : \A x \in Range(s) : m <= x
SeqMax(s) == CHOOSE m \in Range(s) : \A x \in Range(s) : m >= x

\* checkVertexesOfFaces: min ( ) of an empty list raises ValueError
checkVertexesOfFaces(o) ==
    LET vertextIndexes   == Flatten(o.faces, 3)
        vertexReferences == [p \in DOMAIN o.points |-> ListCount(vertextIndexes, p - 1)]
    IN  IF vertexReferences = <<>>
        THEN [raised |-> TRUE, allGood |-> TRUE, notEnough |-> FALSE, orphan |-> FALSE]
        ELSE [ raised    |-> FALSE,
               allGood   |-> ~(SeqMin(vertexReferences) < 3),
               notEnough |-> SeqMin(vertexReferences) < 3,
               orphan    |-> SeqMin(vertexReferences) < 3 /\ SeqMin(vertexReferences) < 1 ]

\* checkEdgeReuse counting the edge itself where it should count its reverse
checkEdgeReuseNoSwap(edges) ==
    LET edgeCounts        == [i \in DOMAIN edges |-> ListCount(edges, edges[i])]
        counterEdgeCounts == [i \in DOMAIN edges |->
                                ListCount(edges, <<edges[i][1], edges[i][2]>>)]
    IN  IF edgeCounts = <<>>
        THEN [raised |-> TRUE, allGood |-> TRUE, duplicate |-> FALSE,
              missingReported |-> FALSE, missing |-> 0]
        ELSE [ raised          |-> FALSE,
               allGood         |-> ~(SeqMax(edgeCounts) > 1) /\ ~(SeqMin(counterEdgeCounts) < 1),
               duplicate       |-> SeqMax(edgeCounts) > 1,
               missingReported |-> SeqMin(counterEdgeCounts) < 1,
               missing         |-> IF SeqMin(counterEdgeCounts) < 1
                                   THEN ListCount(counterEdgeCounts, 0) ELSE 0 ]

\* checkEdgeReuse: max ( ) of an empty list raises ValueError
checkEdgeReuse(edges) ==
    LET edgeCounts        == [i \in DOMAIN edges |-> ListCount(edges, edges[i])]
        counterEdgeCounts == [i \in DOMAIN edges |->
                                ListCount(edges, <<edges[i][2], edges[i][1]>>)]
    IN  IF edgeCounts = <<>>
        THEN [raised |-> TRUE, allGood |-> TRUE, duplicate |-> FALSE,
              missingReported |-> FALSE, missing |-> 0]
        ELSE [ raised          |-> FALSE,
               allGood         |-> ~(SeqMax(edgeCounts) > 1) /\ ~(SeqMin(counterEdgeCounts) < 1),
               duplicate       |-> SeqMax(edgeCounts) > 1,
               missingReported |-> SeqMin(counterEdgeCounts) < 1,
               missing         |-> IF SeqMin(counterEdgeCounts) < 1
                                   THEN ListCount(counterEdgeCounts, 0) ELSE 0 ]

NotRun == [raised |-> FALSE, allGood |-> TRUE, duplicate |-> FALSE,
           missingReported |-> FALSE, missing |-> 0]

\* checkSurfaceIntegrity, for one object: the vertex check, then the edge
\* check over the flattened edges by face
CheckObject(o) ==
    LET v         == checkVertexesOfFaces(o)
        edgByFace == [i \in DOMAIN o.faces |->
                        << <<o.faces[i][1], o.faces[i][2]>>,
                           <<o.faces[i][2], o.faces[i][3]>>,
                           <<o.faces[i][3], o.faces[i][1]>> >>]
        e         == checkEdgeReuse(Flatten(edgByFace, 3))
    IN  IF v.raised THEN [raised |-> TRUE, vertex |-> v, edge |-> NotRun]
        ELSE [raised |-> e.raised, vertex |-> v, edge |-> e]

\* ------------------------------------------------------------ the inputs
\* vertex coordinates with pairwise different encodings (the corners of a
\* cube); as strings '[10, ...' sorts before '[2, ...'
PointPool ==
    << <<2, 2, 2>>,  <<10, 2, 2>>,  <<2, 10, 2>>,  <<10, 10, 2>>,
       <<2, 2, 10>>, <<10, 2, 10>>, <<2, 10, 10>>, <<10, 10, 10>> >>

\* vertex coordinates of which the first and the third differ only in the
\* tenth significant digit, so '%.9g' gives both the same encoding
DedupPool ==
    << <<1000000002, 2, 3>>, <<1000000020, 2, 3>>, <<1000000001, 2, 3>>,
       <<-5, 2, 3>>, <<1000000015, 2, 3>> >>

\* the mesh vectors for a list of labels, 3 per facet, label k standing for pool[k]
MeshOf(labels, pool) ==
    [f \in 1..(Len(labels) \div 3) |->
        <<pool[labels[3 * f - 2]], pool[labels[3 * f - 1]], pool[labels[3 * f]]>>]

MaxLabel(l) == IF l = <<>> THEN 0 ELSE SeqMax(l)

\* the label lists of length n over at most MaxPoints labels, one for each
\* way the vertexes of a mesh can coincide (a new label is the next unused one)
RECURSIVE LabelLists(_)
LabelLists(n) ==
    IF n = 0 THEN {<<>>}
    ELSE UNION {{Append(l, v) : v \in 1..(IF MaxLabel(l) < MaxPoints THEN MaxLabel(l) + 1 ELSE MaxPoints)} :
                    l \in LabelLists(n - 1)}

\* every mesh of at most MaxFaces facets, the empty mesh included
SmallMeshes(pool) ==
    {MeshOf(l, pool) : l \in UNION {LabelLists(3 * n) : n \in 0..MaxFaces}}

\* larger meshes: a closed tetrahedron, the same with one facet missing, two
\* facets back to back with one of them listed twice, two separate tetrahedra,
\* two tetrahedra hinged on an edge, a closed cube, the cube with one facet
\* missing
Tetrahedron == <<1, 2, 3,  1, 4, 2,  2, 4, 3,  3, 4, 1>>
OpenTetrahedron == <<1, 2, 3,  1, 4, 2,  2, 4, 3>>
DoubledFacet == <<1, 2, 3,  1, 3, 2,  1, 3, 2>>
TwoTetrahedra == Tetrahedron \o <<5, 6, 7,  5, 8, 6,  6, 8, 7,  7, 8, 5>>

\* a closed cube: 8 corners, 12 facets, every directed edge reversed once
Cube ==
    <<5, 7, 3,  5, 3, 1,  2, 4, 8,  2, 8, 6,  1, 2, 6,  1, 6, 5,
      7, 8, 4,  7, 4, 3,  3, 4, 2,  3, 2, 1,  5, 6, 8,  5, 8, 7>>

\* the cube without its facet k (1..12)
OpenCube(k) == SubSeq(Cube, 1, 3 * k - 3) \o SubSeq(Cube, 3 * k + 1, Len(Cube))

OpenCubes == {OpenCube(k) : k \in 1..(Len(Cube) \div 3)}

\* two tetrahedra with one edge in common: its two directions occur twice each
HingedTetrahedra == Tetrahedron \o <<1, 2, 5,  1, 6, 2,  2, 6, 5,  5, 6, 1>>

\* three facets of two coinciding corners each, in a ring
DegenerateRing == <<1, 1, 2,  2, 2, 3,  3, 3, 1>>

LargeMeshes ==
    {MeshOf(l, PointPool) :
        l \in {Tetrahedron, OpenTetrahedron, DoubledFacet, TwoTetrahedra, HingedTetrahedra,
               DegenerateRing, Cube} \cup OpenCubes}

\* meshes for a command line of several files: empty, one closed facet, one
\* open facet, two facets back to back
RunMeshes ==
    {MeshOf(l, PointPool) : l \in {<<>>, <<1, 1, 2>>, <<1, 2, 3>>, <<1, 2, 3, 1, 3, 2>>}}

\* the lists of 1..n elements of S
RECURSIVE ListsUpTo(_, _)
ListsUpTo(S, n) ==
    IF n = 0 THEN {}
    ELSE {<<x>> : x \in S} \cup {Append(l, x) : l \in ListsUpTo(S, n - 1), x \in S}

\* ---------------------------------------------------------------- the state
VARIABLES
    files,           \* cmdLineArgs.file: the meshes of the files not yet taken
    analyze,         \* cmdLineArgs.analyze
    split,           \* cmdLineArgs.split
    pc,              \* where the run is
    msh,             \* processStlFile: stlMesh.vectors
    objects,         \* scadModel [ 'objects' ]
    report,          \* what checkSurfaceIntegrity found, per object
    objIdx,          \* splitDisjointObjects: objects already split
    obj,             \* splitDisjointObjects: the object being split
    edgeHashes,      \* splitDisjointObjects: byFace and byEdge
    noSurfaceFaces,  \* splitDisjointObjects: faces on no surface yet
    objectSurfaces,  \* splitDisjointObjects: the surfaces collected
    sfIdx,           \* splitDisjointObjects: surfaces already reassembled
    surfaceObjects,  \* splitDisjointObjects: the polyhedrons made
    seedFace,        \* collectSurfaceFaces: the face the surface starts from
    newSurface,      \* collectSurfaceFaces: the working surface
    curEdge,         \* collectSurfaceFaces: the cursor
    written,         \* model2File: the objects saved, per file
    raised,          \* the function whose exception ended the run, or ""
    keyStep,         \* an edge hash on its own: what was done to it last
    keyA,            \* an edge hash on its own: the int64 of its first point index
    keyB,            \* an edge hash on its own: the int64 of its second point index
    keyHash          \* an edge hash on its own: the hash

\* the state of a run of main ( )
runVars == <<files, analyze, split, pc, msh, objects, report, objIdx, obj, edgeHashes,
             noSurfaceFaces, objectSurfaces, sfIdx, surfaceObjects, seedFace, newSurface,
             curEdge, written, raised>>

\* the state of the computation of one edge hash taken on its own
keyVars == <<keyStep, keyA, keyB, keyHash>>

vars == <<runVars, keyVars>>

NoObject == [points |-> <<>>, faces |-> <<>>]
NoHashes == [byFace |-> <<>>, byEdge |-> <<>>]

\* the locals of splitDisjointObjects and collectSurfaceFaces when neither runs
splitVars == <<objIdx, obj, edgeHashes, noSurfaceFaces, objectSurfaces, sfIdx,
               surfaceObjects, seedFace, newSurface, curEdge>>

SplitIdle ==
    /\ objIdx = 0
    /\ obj = NoObject
    /\ edgeHashes = NoHashes
    /\ noSurfaceFaces = {}
    /\ objectSurfaces = <<>>
    /\ sfIdx = 0
    /\ surfaceObjects = <<>>
    /\ seedFace = 0
    /\ newSurface = EmptySurface
    /\ curEdge = 0

\* the locals are gone when splitDisjointObjects has returned
SplitForget ==
    /\ objIdx' = 0
    /\ obj' = NoObject
    /\ edgeHashes' = NoHashes
    /\ noSurfaceFaces' = {}
    /\ objectSurfaces' = <<>>
    /\ sfIdx' = 0
    /\ surfaceObjects' = <<>>
    /\ seedFace' = 0
    /\ newSurface' = EmptySurface
    /\ curEdge' = 0

\* main ( ) before the first file, for the command lines in fileLists
InitWith(fileLists) ==
    /\ files \in fileLists
    /\ analyze \in BOOLEAN
    /\ split \in BOOLEAN
    /\ pc = "main"
    /\ msh = <<>>
    /\ objects = <<>>
    /\ report = <<>>
    /\ SplitIdle
    /\ written = <<>>
    /\ raised = ""
    /\ keyStep = "idle"
    /\ keyA = Word64(0)
    /\ keyB = Word64(0)
    /\ keyHash = Word64(0)

\* one file: any small mesh, or one of the larger ones
Init == InitWith({<<m>> : m \in SmallMeshes(PointPool) \cup LargeMeshes})

\* one file whose vertexes may agree in their encoding only
InitDedup == InitWith({<<m>> : m \in SmallMeshes(DedupPool)})

\* up to MaxFiles files
InitRun == InitWith(ListsUpTo(RunMeshes, MaxFiles))

\* -------------------------------------------------------------- the actions
\* main: the next file; processStlFile up to the conversion
GetMesh ==
    /\ UNCHANGED keyVars
    /\ pc = "main"
    /\ files # <<>>
    /\ msh' = Head(files)
    /\ files' = Tail(files)
    /\ objects' = <<>>
    /\ report' = <<>>
    /\ pc' = "dedup"
    /\ UNCHANGED <<analyze, split, splitVars, written, raised>>

\* processStlFile: mesh2scadDedup, then on to the step the options ask for
Mesh2scadDedup ==
    /\ UNCHANGED keyVars
    /\ pc = "dedup"
    /\ objects' = Append(objects, mesh2scadDedup(msh))
    /\ pc' = IF analyze THEN "analyze" ELSE IF split THEN "split" ELSE "output"
    /\ UNCHANGED <<files, analyze, split, msh, report, splitVars, written, raised>>

\* processStlFile: checkSurfaceIntegrity over every object; an exception of
\* a check is caught nowhere and ends the run
CheckSurfaceIntegrity ==
    /\ UNCHANGED keyVars
    /\ pc = "analyze"
    /\ LET found  == [i \in DOMAIN objects |-> CheckObject(objects[i])]
           failed == {i \in DOMAIN found : found[i].raised}
           last   == IF failed = {} THEN Len(found)
                     ELSE CHOOSE i \in failed : \A j \in failed : i <= j
       IN  /\ report' = SubSeq(found, 1, last)
           /\ IF failed = {}
              THEN /\ pc' = IF split THEN "split" ELSE "output"
                   /\ raised' = raised
              ELSE /\ pc' = "crashed"
                   /\ raised' = IF found[last].vertex.raised THEN "checkVertexesOfFaces"
                                ELSE "checkEdgeReuse"
    /\ UNCHANGED <<files, analyze, split, msh, objects, splitVars, written>>

\* splitDisjointObjects: the next object of the model, its edge hashes; a
\* hash that came out negative does not go into an array of type 'L'
\* (OverflowError, caught nowhere)
SplitObject ==
    /\ UNCHANGED keyVars
    /\ pc = "split"
    /\ objIdx < Len(objects)
    /\ obj' = objects[objIdx + 1]
    /\ IF \E h \in Range(EdgeHashes(objects[objIdx + 1].faces).byEdge) : Negative(h)
       THEN /\ pc' = "crashed"
            /\ raised' = "splitDisjointObjects"
            /\ UNCHANGED <<edgeHashes, objectSurfaces, noSurfaceFaces, sfIdx>>
       ELSE /\ edgeHashes' = EdgeHashes(objects[objIdx + 1].faces)
            /\ objectSurfaces' = <<>>
            /\ noSurfaceFaces' = 0..(Len(objects[objIdx + 1].faces) - 1)
            /\ sfIdx' = 0
            /\ pc' = "surfaces"
            /\ raised' = raised
    /\ UNCHANGED <<files, analyze, split, msh, objects, report, objIdx, surfaceObjects,
                   seedFace, newSurface, curEdge, written>>

\* splitDisjointObjects, collectSurfaceFaces: any face on no surface yet
\* starts the next surface
SeedSurface ==
    /\ UNCHANGED keyVars
    /\ pc = "surfaces"
    /\ noSurfaceFaces # {}
    /\ \E f \in noSurfaceFaces :
           /\ seedFace' = f
           /\ newSurface' = addFaceAndEdges(EmptySurface, Face(f), edgeHashes)
    /\ curEdge' = 0
    /\ pc' = "collect"
    /\ UNCHANGED <<files, analyze, split, msh, objects, report, objIdx, obj, edgeHashes,
                   noSurfaceFaces, objectSurfaces, sfIdx, surfaceObjects, written, raised>>

\* collectSurfaceFaces: one turn of the loop over the edges of the surface
GrowSurface ==
    /\ UNCHANGED keyVars
    /\ pc = "collect"
    /\ curEdge < Len(newSurface.edgehash)
    /\ LET nextFace == getAdjacentFace(newSurface, edgeHashes, curEdge)
       IN  IF nextFace.kind = "ValueError"
           THEN /\ pc' = "crashed"
                /\ raised' = "getAdjacentFace"
                /\ UNCHANGED <<newSurface, curEdge>>
           ELSE /\ newSurface' = addFaceAndEdges(newSurface, nextFace, edgeHashes)
                /\ curEdge' = curEdge + 1
                /\ UNCHANGED <<pc, raised>>
    /\ UNCHANGED <<files, analyze, split, msh, objects, report, objIdx, obj, edgeHashes,
                   noSurfaceFaces, objectSurfaces, sfIdx, surfaceObjects, seedFace, written>>

\* collectSurfaceFaces returns; splitDisjointObjects keeps the surface and
\* takes its faces out of the faces on no surface
SurfaceCollected ==
    /\ UNCHANGED keyVars
    /\ pc = "collect"
    /\ curEdge >= Len(newSurface.edgehash)
    /\ objectSurfaces' = Append(objectSurfaces, newSurface)
    /\ noSurfaceFaces' = noSurfaceFaces \ newSurface.faceindex
    /\ seedFace' = 0
    /\ newSurface' = EmptySurface
    /\ curEdge' = 0
    /\ pc' = "surfaces"
    /\ UNCHANGED <<files, analyze, split, msh, objects, report, objIdx, obj, edgeHashes,
                   sfIdx, surfaceObjects, written, raised>>

\* splitDisjointObjects: the polyhedron of the next surface of the object
ReassembleSurface ==
    /\ UNCHANGED keyVars
    /\ pc = "surfaces"
    /\ noSurfaceFaces = {}
    /\ sfIdx < Len(objectSurfaces)
    /\ \E order \in SetOrders(objectSurfaces[sfIdx + 1].faceindex) :
           surfaceObjects' = Append(surfaceObjects,
               surface2polyhedronObject(objectSurfaces[sfIdx + 1], obj, order))
    /\ sfIdx' = sfIdx + 1
    /\ UNCHANGED <<files, analyze, split, pc, msh, objects, report, objIdx, obj, edgeHashes,
                   noSurfaceFaces, objectSurfaces, seedFace, newSurface, curEdge, written,
                   raised>>

\* splitDisjointObjects: the object is done
ObjectDone ==
    /\ UNCHANGED keyVars
    /\ pc = "surfaces"
    /\ noSurfaceFaces = {}
    /\ sfIdx = Len(objectSurfaces)
    /\ objIdx' = objIdx + 1
    /\ pc' = "split"
    /\ UNCHANGED <<files, analyze, split, msh, objects, report, obj, edgeHashes,
                   noSurfaceFaces, objectSurfaces, sfIdx, surfaceObjects, seedFace,
                   newSurface, curEdge, written, raised>>

\* splitDisjointObjects returns: the polyhedrons replace the objects
SplitReturn ==
    /\ UNCHANGED keyVars
    /\ pc = "split"
    /\ objIdx = Len(objects)
    /\ objects' = surfaceObjects
    /\ pc' = "output"
    /\ UNCHANGED <<files, analyze, split, msh, report, splitVars, written, raised>>

\* processStlFile: model2File saves every object; back to main
Model2File ==
    /\ UNCHANGED keyVars
    /\ pc = "output"
    /\ written' = Append(written, objects)
    /\ pc' = "main"
    /\ SplitForget
    /\ UNCHANGED <<files, analyze, split, msh, objects, report, raised>>

Next ==
    \/ GetMesh
    \/ Mesh2scadDedup
    \/ CheckSurfaceIntegrity
    \/ SplitObject
    \/ SeedSurface
    \/ GrowSurface
    \/ SurfaceCollected
    \/ ReassembleSurface
    \/ ObjectDone
    \/ SplitReturn
    \/ Model2File

\* ---------------------------------------------- one edge hash on its own
\* limbs at and next to the ends of the range of a limb and its sign bit
SampleLimbs == {0, 1, 32767, 32768, 65535}

\* int64 point indexes in 0 .. 2^32 - 1
SampleIndexes == {<<0, 0, h, l>> : h \in SampleLimbs, l \in SampleLimbs}

\* no file to convert; two point indexes of which the edge hash is to be made
InitKey ==
    /\ files = <<>>
    /\ analyze = FALSE
    /\ split = FALSE
    /\ pc = "main"
    /\ msh = <<>>
    /\ objects = <<>>
    /\ report = <<>>
    /\ SplitIdle
    /\ written = <<>>
    /\ raised = ""
    /\ keyStep = "indexes"
    /\ keyA \in SampleIndexes
    /\ keyB \in SampleIndexes
    /\ keyHash = Word64(0)

\* splitDisjointObjects: oneFace [ 0 ] << 32 | oneFace [ 1 ] on int64, put in
\* an array of type 'L', which takes no negative value (OverflowError)
PackKey ==
    /\ keyStep = "indexes"
    /\ IF Negative(PackHash(keyA, keyB))
       THEN /\ keyStep' = "OverflowError"
            /\ keyHash' = keyHash
       ELSE /\ keyStep' = "packed"
            /\ keyHash' = PackHash(keyA, keyB)
    /\ UNCHANGED <<runVars, keyA, keyB>>

\* getAdjacentFace: the hash of the reverse edge, once and once more
ReverseKey ==
    /\ keyStep \in {"packed", "reversed"}
    /\ LET reverseEdge == <<HashLow(keyHash), HashHigh(keyHash)>>
       IN  keyHash' = PackHash(reverseEdge[1], reverseEdge[2])
    /\ keyStep' = IF keyStep = "packed" THEN "reversed" ELSE "restored"
    /\ UNCHANGED <<runVars, keyA, keyB>>

NextKey ==
    \/ PackKey
    \/ ReverseKey

Spec == Init /\ [][Next]_vars
SpecKey == InitKey /\ [][NextKey]_vars
SpecDedup == InitDedup /\ [][Next]_vars
SpecRun == InitRun /\ [][Next]_vars

\* =============================================================== the claims
\* the face indexes of the object being split
FaceIndexes == 0..(Len(obj.faces) - 1)

\* the while loop of splitDisjointObjects has ended for the object
SurfacesComplete == pc = "surfaces" /\ noSurfaceFaces = {}

\* no directed edge occurs twice in the object being split
NoDuplicateEdge ==
    \A i, j \in DOMAIN edgeHashes.byEdge :
        edgeHashes.byEdge[i] = edgeHashes.byEdge[j] => i = j

\* the surfaces that hold face f
SurfacesOf(f) == {k \in DOMAIN objectSurfaces : f \in objectSurfaces[k].faceindex}

\* every face is on exactly one surface and the surfaces hold the faces of
\* the object and nothing else
FacesPartitioned ==
    /\ \A f \in FaceIndexes : Cardinality(SurfacesOf(f)) = 1
    /\ UNION {objectSurfaces[k].faceindex : k \in DOMAIN objectSurfaces} = FaceIndexes

\* C1 as stated: for every object, when splitDisjointObjects has collected
\* its surfaces, every face of the object is in the face set of exactly one
\* surface and the face sets together are the faces of the object.
C1_PartitionEveryObject == SurfacesComplete => FacesPartitioned

\* C1 amended: for every object in which no directed edge occurs more than
\* once, when splitDisjointObjects has collected its surfaces, every face of
\* the object is in the face set of exactly one surface and the face sets
\* together are the faces of the object.
C1_PartitionNoDuplicateEdge == (SurfacesComplete /\ NoDuplicateEdge) => FacesPartitioned

\* two surfaces of several faces each were collected from one object
C1_Witness ==
    /\ SurfacesComplete
    /\ NoDuplicateEdge
    /\ Len(objectSurfaces) = 2
    /\ \A k \in DOMAIN objectSurfaces : Cardinality(objectSurfaces[k].faceindex) = 4

\* faces f and g share an edge: one has a directed edge, the other its reverse
SharesEdge(f, g) ==
    \E i, j \in 1..3 :
        /\ obj.faces[g + 1][j] = obj.faces[f + 1][(i % 3) + 1]
        /\ obj.faces[g + 1][(j % 3) + 1] = obj.faces[f + 1][i]

\* the faces a chain of shared edges leads to from the faces in S
RECURSIVE ChainedFrom(_)
ChainedFrom(S) ==
    LET T == S \cup {g \in FaceIndexes : \E f \in S : SharesEdge(f, g)}
    IN  IF T = S THEN S ELSE ChainedFrom(T)

\* collectSurfaceFaces is about to return newSurface
SurfaceReturned == pc = "collect" /\ curEdge >= Len(newSurface.edgehash)

\* C2 as stated: the face set collectSurfaceFaces returns for a seed face is
\* the set of the faces a chain of shared edges leads to from the seed.
C2_ComponentEveryObject ==
    SurfaceReturned => newSurface.faceindex = ChainedFrom({seedFace})

\* C2 amended: in an object in which no directed edge occurs more than once,
\* the face set collectSurfaceFaces returns for a seed face is the set of the
\* faces a chain of shared edges leads to from the seed.
C2_ComponentNoDuplicateEdge ==
    (SurfaceReturned /\ NoDuplicateEdge) => newSurface.faceindex = ChainedFrom({seedFace})

\* a surface of 4 faces is returned while the object has faces off the chain
C2_Witness ==
    /\ SurfaceReturned
    /\ NoDuplicateEdge
    /\ Cardinality(newSurface.faceindex) = 4
    /\ newSurface.faceindex # FaceIndexes

\* C3: when the growth of a surface comes to an edge whose reverse is nowhere
\* in the object, the run is not ended by it: no exception out of
\* getAdjacentFace ends the run, the object is reported and the other files
\* are still processed.
C3_OpenBoundarySignalled == ~(pc = "crashed" /\ raised = "getAdjacentFace")

\* mesh2scadDedup has just returned: objects holds what it made of msh
DedupReturned ==
    \/ pc = "analyze"
    \/ pc = "split" /\ objIdx = 0
    \/ pc = "output" /\ ~split

\* the vertexes of the input, 3 per facet, in facet order
InputVertexes == Flatten(msh, 3)

\* the encodings of a list of points
RECURSIVE Encodings(_)
Encodings(ps) ==
    IF ps = <<>> THEN <<>> ELSE <<point2str(Head(ps))>> \o Encodings(Tail(ps))

\* C4: mesh2scadDedup gives one object; no two rows of its point table have
\* the same encoding; every encoding of the input is the encoding of a row;
\* a row holds the coordinates of the first input vertex with its encoding;
\* the faces are those of the input in order, each corner the index of the
\* row with the encoding of the input vertex.
C4_DedupTables ==
    DedupReturned =>
        /\ Len(objects) = 1
        /\ LET pts    == objects[1].points
               fcs    == objects[1].faces
               ptsStr == Encodings(pts)
               inStr  == Encodings(InputVertexes)
           IN  /\ \A i, j \in DOMAIN pts : ptsStr[i] = ptsStr[j] => i = j
               /\ \A k \in DOMAIN inStr : \E j \in DOMAIN pts : ptsStr[j] = inStr[k]
               /\ \A j \in DOMAIN pts :
                      \E k \in DOMAIN inStr :
                          /\ pts[j] = InputVertexes[k]
                          /\ \A l \in 1..(k - 1) : inStr[l] # ptsStr[j]
               /\ Len(fcs) = Len(msh)
               /\ \A f \in DOMAIN fcs : \A c \in 1..3 :
                      /\ fcs[f][c] \in 0..(Len(pts) - 1)
                      /\ ptsStr[fcs[f][c] + 1] = inStr[3 * (f - 1) + c]

\* two input vertexes of different coordinates and one encoding went into a
\* point table of several rows, the later of the two first
C4_Witness ==
    /\ DedupReturned
    /\ Len(objects[1].points) >= 2
    /\ \E k, l \in DOMAIN InputVertexes :
           /\ k < l
           /\ InputVertexes[k] # InputVertexes[l]
           /\ point2str(InputVertexes[k]) = point2str(InputVertexes[l])
           /\ InputVertexes[k] \in Range(objects[1].points)

\* the point indexes the faces of surface sf refer to
CornersOf(sf) == {obj.faces[f + 1][c] : f \in sf.faceindex, c \in 1..3}

\* surface2polyhedronObject has just returned the polyhedron of a surface
SurfaceReassembled == pc = "surfaces" /\ sfIdx > 0

\* C5: the polyhedron made of a surface has as points the points of the
\* object its faces refer to, each once, by ascending index in the object;
\* it has one face for each face of the surface, the corners in the same
\* order; every corner is an index into the new points and refers to the
\* coordinates the corner referred to in the object.
C5_Reassembly ==
    SurfaceReassembled =>
        LET sf   == objectSurfaces[sfIdx]
            new  == surfaceObjects[Len(surfaceObjects)]
            used == SortSet(CornersOf(sf), "int")
        IN  /\ new.points = [k \in DOMAIN used |-> obj.points[used[k] + 1]]
            /\ \A i, j \in DOMAIN new.points : new.points[i] = new.points[j] => i = j
            /\ Len(new.faces) = Cardinality(sf.faceindex)
            /\ \E order \in SetOrders(sf.faceindex) :
                   \A n \in DOMAIN new.faces : \A c \in 1..3 :
                       /\ new.faces[n][c] \in 0..(Len(new.points) - 1)
                       /\ new.points[new.faces[n][c] + 1] =
                              obj.points[obj.faces[order[n] + 1][c] + 1]

\* the second surface of an object of 8 points was made a polyhedron of 4
\* points, so its corners were renumbered
C5_Witness ==
    /\ SurfaceReassembled
    /\ sfIdx = 2
    /\ Len(obj.points) = 8
    /\ Len(surfaceObjects[2].points) = 4
    /\ Len(surfaceObjects[2].faces) = 4

RECURSIVE FaceCount(_)
FaceCount(os) == IF os = <<>> THEN 0 ELSE Len(Head(os).faces) + FaceCount(Tail(os))

\* splitDisjointObjects has returned: objects holds the polyhedrons
SplitReturned == pc = "output" /\ split

FacesKeptByDedup == DedupReturned => Len(objects[1].faces) = Len(msh)

FacesKeptByReassembly ==
    \A k \in DOMAIN surfaceObjects :
        Len(surfaceObjects[k].faces) = Cardinality(objectSurfaces[k].faceindex)

\* C6 as stated: mesh2scadDedup gives as many faces as the input has
\* triangles; after splitDisjointObjects the objects together have as many
\* faces as the object that was split; surface2polyhedronObject gives as many
\* faces as the surface holds.
C6_FaceCountEveryObject ==
    /\ FacesKeptByDedup
    /\ SplitReturned => FaceCount(objects) = Len(obj.faces)
    /\ FacesKeptByReassembly

\* C6 amended: mesh2scadDedup gives as many faces as the input has triangles;
\* after splitDisjointObjects of an object in which no directed edge occurs
\* more than once the objects together have as many faces as the object
\* that was split; surface2polyhedronObject gives as many faces as the
\* surface holds.
C6_FaceCountNoDuplicateEdge ==
    /\ FacesKeptByDedup
    /\ (SplitReturned /\ NoDuplicateEdge) => FaceCount(objects) = Len(obj.faces)
    /\ FacesKeptByReassembly

\* an object of 8 faces was split into two objects
C6_Witness ==
    /\ SplitReturned
    /\ NoDuplicateEdge
    /\ Len(obj.faces) = 8
    /\ Len(objects) = 2

\* C7: canonicalizing the rows of the point table mesh2scadDedup made
\* (encode, unique, first occurrence as the row, inverse index) gives the
\* same rows in the same order, and row j is mapped to j.
C7_DedupIdempotent ==
    DedupReturned =>
        LET pts   == objects[1].points
            again == NpUnique([j \in DOMAIN pts |-> point2str(pts[j])], "str")
        IN  /\ [j \in DOMAIN again.index |-> pts[again.index[j] + 1]] = pts
            /\ again.inverse = [j \in DOMAIN pts |-> j - 1]

\* the table has several rows, one of them for two input vertexes of
\* different coordinates, and its rows are not in the order of the input
C7_Witness ==
    /\ DedupReturned
    /\ Len(objects[1].points) >= 2
    /\ objects[1].faces[1][1] # 0
    /\ \E k, l \in DOMAIN InputVertexes :
           /\ InputVertexes[k] # InputVertexes[l]
           /\ point2str(InputVertexes[k]) = point2str(InputVertexes[l])

\* checkSurfaceIntegrity has run, or was ended by an exception, and objects
\* still holds the objects it looked at
Checked ==
    /\ report # <<>>
    /\ objIdx = 0
    /\ \/ pc = "split"
       \/ pc = "output" /\ ~split
       \/ pc = "crashed" /\ raised # "getAdjacentFace"

\* the number of face corners of object o that are point index p
CornerCount(o, p) == ListCount(Flatten(o.faces, 3), p)

\* C8: checkVertexesOfFaces returns False if and only if some index of the
\* point table occurs fewer than 3 times among the face corners; it reports
\* orphan vertexes if and only if some index occurs not at all; otherwise it
\* returns True.
C8_VertexCheck ==
    Checked =>
        \A i \in DOMAIN report :
            LET v      == report[i].vertex
                points == 0..(Len(objects[i].points) - 1)
            IN  /\ ~v.raised
                /\ v.allGood <=> ~(\E p \in points : CornerCount(objects[i], p) < 3)
                /\ v.orphan <=> (\E p \in points : CornerCount(objects[i], p) = 0)

\* the directed edges of object o, 3 per face, in face order
DirectedEdges(o) ==
    Flatten([f \in DOMAIN o.faces |->
                << <<o.faces[f][1], o.faces[f][2]>>,
                   <<o.faces[f][2], o.faces[f][3]>>,
                   <<o.faces[f][3], o.faces[f][1]>> >>], 3)

\* the entries of the edge list es whose reverse is not in the list
Unmatched(es) == {i \in DOMAIN es : <<es[i][2], es[i][1]>> \notin Range(es)}

\* C9: checkEdgeReuse returns True if and only if no directed edge occurs
\* more than once and every directed edge has its reverse in the list; the
\* two conditions are reported each on its own; the number of missing
\* reverse edges reported is the number of entries whose reverse is not in
\* the list.
C9_EdgeCheck ==
    Checked =>
        \A i \in DOMAIN report :
            ~report[i].vertex.raised =>
                LET e   == report[i].edge
                    es  == DirectedEdges(objects[i])
                    dup == \E k, l \in DOMAIN es : k # l /\ es[k] = es[l]
                IN  /\ ~e.raised
                    /\ e.allGood <=> (~dup /\ Unmatched(es) = {})
                    /\ e.duplicate <=> dup
                    /\ e.missingReported <=> (Unmatched(es) # {})
                    /\ e.missingReported => e.missing = Cardinality(Unmatched(es))

\* both conditions were found in one object, with several reverses missing
C9_Witness ==
    /\ Checked
    /\ ~report[1].vertex.raised
    /\ report[1].edge.duplicate
    /\ report[1].edge.missingReported
    /\ report[1].edge.missing >= 3
    /\ ~report[1].edge.allGood

\* C10: checkSurfaceIntegrity runs both checks to the end for every object
\* without raising: no exception out of a check ends the run before the
\* split and the output.
C10_ValidationNeverRaises ==
    ~(pc = "crashed" /\ raised \in {"checkVertexesOfFaces", "checkEdgeReuse"})

\* the input is the closed cube
CubeInput == msh = MeshOf(Cube, PointPool)

\* the input is the cube with one facet missing
OpenCubeInput == msh \in {MeshOf(l, PointPool) : l \in OpenCubes}

\* C11: for the closed cube (one object of 8 points and 12 facets)
\* checkVertexesOfFaces and checkEdgeReuse both report no defect, and
\* splitDisjointObjects collects exactly one surface, which holds all 12
\* faces, whichever face the surface is started from.
C11_ClosedCube ==
    CubeInput =>
        /\ pc # "crashed"
        /\ objects # <<>> /\ pc \in {"analyze", "split", "surfaces", "collect"} =>
               /\ Len(objects) = 1
               /\ Len(objects[1].points) = 8
               /\ Len(objects[1].faces) = 12
        /\ Checked =>
               /\ Len(report) = 1
               /\ ~report[1].raised
               /\ report[1].vertex.allGood /\ ~report[1].vertex.notEnough
               /\ report[1].edge.allGood
               /\ ~report[1].edge.duplicate /\ ~report[1].edge.missingReported
        /\ SurfaceReturned => newSurface.faceindex = 0..11
        /\ SurfacesComplete =>
               /\ Len(objectSurfaces) = 1
               /\ objectSurfaces[1].faceindex = 0..11

\* the cube was checked and its surface, started from its last face, is complete
C11_Witness ==
    /\ CubeInput
    /\ report # <<>>
    /\ SurfaceReturned
    /\ seedFace = 11
    /\ Cardinality(newSurface.faceindex) = 12

\* what checkEdgeReuse finds for the cube with one facet missing
OpenCubeEdgesReported ==
    (OpenCubeInput /\ Checked) =>
        /\ ~report[1].raised
        /\ ~report[1].edge.allGood
        /\ report[1].edge.missingReported
        /\ report[1].edge.missing >= 3

\* C12 as stated: for the cube with one facet missing checkEdgeReuse reports
\* at least 3 missing reverse edges and returns False, and the extraction,
\* whichever face it starts from, neither ends the run with an exception nor
\* returns a surface.
C12_OpenCube ==
    /\ OpenCubeEdgesReported
    /\ OpenCubeInput => ~(pc = "crashed" /\ raised = "getAdjacentFace")
    /\ OpenCubeInput => ~SurfaceReturned

\* collectSurfaceFaces from cursor cur on, as one computation: the surface
\* when the cursor has passed the end of its edge list (as far as it got when
\* getAdjacentFace raises)
RECURSIVE GrownFrom(_, _, _)
GrownFrom(sf, edgDt, cur) ==
    IF cur >= Len(sf.edgehash) THEN sf
    ELSE LET nextFace == getAdjacentFace(sf, edgDt, cur)
         IN  IF nextFace.kind = "ValueError" THEN sf
             ELSE GrownFrom(addFaceAndEdges(sf, nextFace, edgDt), edgDt, cur + 1)

\* the face sets of the surfaces of the run of the loop of
\* splitDisjointObjects that always pops the lowest face on no surface
RECURSIVE LowestSeedGrouping(_, _)
LowestSeedGrouping(edgDt, unassigned) ==
    IF unassigned = {} THEN {}
    ELSE LET seed == CHOOSE f \in unassigned : \A g \in unassigned : f <= g
             sf   == GrownFrom(addFaceAndEdges(EmptySurface, Face(seed), edgDt), edgDt, 0)
         IN  {sf.faceindex} \cup LowestSeedGrouping(edgDt, unassigned \ sf.faceindex)

\* the while loop of splitDisjointObjects has just ended for the object
SurfacesJustComplete == SurfacesComplete /\ sfIdx = 0

\* the face sets of the surfaces this run collected
Grouping == {objectSurfaces[k].faceindex : k \in DOMAIN objectSurfaces}

\* C13 as stated: whichever faces the loop of splitDisjointObjects pops as
\* seeds, it groups the faces of an object into the same face sets; every
\* run gives the grouping of the run that always pops the lowest face.
C13_SeedIndependentEveryObject ==
    SurfacesJustComplete => Grouping = LowestSeedGrouping(edgeHashes, FaceIndexes)

\* C13 amended: for an object in which no directed edge occurs more than
\* once, whichever faces the loop of splitDisjointObjects pops as seeds, it
\* groups the faces into the same face sets.
C13_SeedIndependentNoDuplicateEdge ==
    (SurfacesJustComplete /\ NoDuplicateEdge) =>
        Grouping = LowestSeedGrouping(edgeHashes, FaceIndexes)

\* two surfaces were collected, the first of them not from the lowest face
C13_Witness ==
    /\ SurfacesJustComplete
    /\ NoDuplicateEdge
    /\ Len(objectSurfaces) = 2
    /\ 0 \notin objectSurfaces[1].faceindex
    /\ Cardinality(objectSurfaces[1].faceindex) = 4

\* the edge list of the working surface is no longer than 3 times the
\* number of faces of the object
EdgeListBounded == pc = "collect" => Len(newSurface.edgehash) <= 3 * Len(obj.faces)

\* a turn of the loop of collectSurfaceFaces moves the cursor on by one, and
\* lengthens the edge list only when it adds a face that was not in the face set
TurnAdvances ==
    (pc = "collect" /\ pc' = "collect") =>
        /\ curEdge' = curEdge + 1
        /\ newSurface'.edgehash # newSurface.edgehash =>
               /\ newSurface.faceindex \subseteq newSurface'.faceindex
               /\ newSurface'.faceindex # newSurface.faceindex

\* the loop of collectSurfaceFaces is left only with the cursor past the end
\* of the edge list
LeftPastTheEnd ==
    (pc = "collect" /\ pc' # "collect") => curEdge >= Len(newSurface.edgehash)

\* a turn of the loop of splitDisjointObjects takes at least one face out of
\* the faces on no surface, and the surface kept is the face set accumulated
UnassignedShrinks ==
    (pc = "collect" /\ pc' = "surfaces") =>
        /\ noSurfaceFaces' \subseteq noSurfaceFaces
        /\ noSurfaceFaces' # noSurfaceFaces
        /\ objectSurfaces' = Append(objectSurfaces, newSurface)

\* C14 as stated: in collectSurfaceFaces the edge list grows only when a face
\* not yet in the face set is added and never exceeds 3 times the face count,
\* the cursor moves on every turn and the loop ends with the cursor past the
\* end of the edge list; in splitDisjointObjects every turn of the outer loop
\* shrinks the set of unassigned faces; the surface returned is the face set
\* accumulated.
C14_ExtractionTerminates ==
    /\ []EdgeListBounded
    /\ [][TurnAdvances /\ LeftPastTheEnd /\ UnassignedShrinks]_vars

\* the same without the way the loop of collectSurfaceFaces is left
C14_LoopMeasures ==
    /\ []EdgeListBounded
    /\ [][TurnAdvances /\ UnassignedShrinks]_vars

\* the faces of object o that have the directed edge e
FacesWithEdge(o, e) ==
    {f \in DOMAIN o.faces :
        \E c \in 1..3 : <<o.faces[f][c], o.faces[f][(c % 3) + 1]>> = e}

\* the faces of object o that have point p as a corner
FacesAtPoint(o, p) == {f \in DOMAIN o.faces : \E c \in 1..3 : o.faces[f][c] = p}

\* the closed-manifold invariant: every directed edge is in exactly one face,
\* its reverse is in exactly one face, a different one, and every point is a
\* corner of at least 3 faces
ClosedManifold(o) ==
    /\ \A f \in DOMAIN o.faces : \A c \in 1..3 :
           LET e == <<o.faces[f][c], o.faces[f][(c % 3) + 1]>>
               r == <<e[2], e[1]>>
           IN  /\ FacesWithEdge(o, e) = {f}
               /\ Cardinality(FacesWithEdge(o, r)) = 1
               /\ f \notin FacesWithEdge(o, r)
    /\ \A p \in 0..(Len(o.points) - 1) : Cardinality(FacesAtPoint(o, p)) >= 3

\* both checks of checkSurfaceIntegrity passed for object i
BothChecksPass(i) ==
    /\ ~report[i].raised
    /\ report[i].vertex.allGood
    /\ report[i].edge.allGood

\* no face of object o repeats a point index
NoDegenerateFace(o) ==
    \A f \in DOMAIN o.faces :
        /\ o.faces[f][1] # o.faces[f][2]
        /\ o.faces[f][2] # o.faces[f][3]
        /\ o.faces[f][3] # o.faces[f][1]

\* C15 as stated: an object for which checkVertexesOfFaces and checkEdgeReuse
\* both return True satisfies the closed-manifold invariant, whatever its
\* face table, degenerate faces included.
C15_ChecksImplyManifold ==
    Checked => \A i \in DOMAIN report : BothChecksPass(i) => ClosedManifold(objects[i])

\* the same for the objects none of whose faces repeats a point index
C15_ChecksImplyManifoldNoDegenerateFace ==
    Checked =>
        \A i \in DOMAIN report :
            (BothChecksPass(i) /\ NoDegenerateFace(objects[i])) => ClosedManifold(objects[i])

\* the k-th group of three entries of the edge list of surface sf
EdgeBlock(sf, k) == SubSeq(sf.edgehash, 3 * k - 2, 3 * k)

\* the edge list of sf is made of the three edge hashes of each face of its
\* face set, each face once: every group of three is the hashes of a face of
\* the set, and the hashes of a face of the set make up as many groups as
\* the set has faces with those hashes
EdgesOfFacesOnce(sf) ==
    /\ Len(sf.edgehash) = 3 * Cardinality(sf.faceindex)
    /\ \A k \in 1..Cardinality(sf.faceindex) :
           \E f \in sf.faceindex : EdgeBlock(sf, k) = edgeHashes.byFace[f + 1]
    /\ \A f \in sf.faceindex :
           Cardinality({k \in 1..Cardinality(sf.faceindex) :
                            EdgeBlock(sf, k) = edgeHashes.byFace[f + 1]})
             = Cardinality({g \in sf.faceindex :
                            edgeHashes.byFace[g + 1] = edgeHashes.byFace[f + 1]})

\* while collectSurfaceFaces grows a surface: the edge list holds the hashes
\* of the faces of the face set, three for each; the cursor is within the
\* list or just past it; adding None or a face of the face set changes nothing
WorkingSurfaceConsistent ==
    pc = "collect" =>
        /\ EdgesOfFacesOnce(newSurface)
        /\ curEdge <= Len(newSurface.edgehash)
        /\ addFaceAndEdges(newSurface, NoFace, edgeHashes) = newSurface
        /\ \A f \in newSurface.faceindex :
               addFaceAndEdges(newSurface, Face(f), edgeHashes) = newSurface

\* a step of collectSurfaceFaces either leaves the working surface as it is
\* or adds one face and appends its three hashes, in the order of the face,
\* to the end of the edge list
SurfaceAppendOnly ==
    /\ (pc = "surfaces" /\ pc' = "collect") =>
           /\ newSurface'.faceindex = {seedFace'}
           /\ newSurface'.edgehash = edgeHashes.byFace[seedFace' + 1]
    /\ (pc = "collect" /\ pc' = "collect") =>
           LET added == newSurface'.faceindex \ newSurface.faceindex
           IN  /\ newSurface.faceindex \subseteq newSurface'.faceindex
               /\ Cardinality(added) <= 1
               /\ SubSeq(newSurface'.edgehash, 1, Len(newSurface.edgehash)) = newSurface.edgehash
               /\ added = {} => newSurface'.edgehash = newSurface.edgehash
               /\ \A f \in added :
                      newSurface'.edgehash = newSurface.edgehash \o edgeHashes.byFace[f + 1]

\* C16: in every state reached while collectSurfaceFaces grows a surface the
\* edge list is the three edge hashes of each face of the face set, in the
\* order the faces were accepted, each face contributing once (adding None or
\* a face of the set changes nothing); entries are never removed or
\* reordered; the list is 3 times as long as the face set is large and the
\* cursor is not beyond its end.
C16_WorkingSurface == []WorkingSurfaceConsistent /\ [][SurfaceAppendOnly]_vars

\* a surface of several faces with the cursor past edges that added a face
\* and edges that added none
C16_Witness ==
    /\ pc = "collect"
    /\ Cardinality(newSurface.faceindex) >= 4
    /\ curEdge >= 6
    /\ curEdge < Len(newSurface.edgehash)

\* the number a * 2^32 + b, as limbs, for two point indexes below 2^31
KeyOf(a, b) == <<a \div 65536, a % 65536, b \div 65536, b % 65536>>

\* splitDisjointObjects has just made the edge hashes of an object; they and
\* the object stay as they are until the object is done
HashesMade == pc = "surfaces" /\ objectSurfaces = <<>> /\ edgeHashes # NoHashes

\* the edge hashes of splitDisjointObjects are those of the face table
IndexFaithful ==
    HashesMade =>
        /\ Len(edgeHashes.byFace) = Len(obj.faces)
        /\ Len(edgeHashes.byEdge) = 3 * Len(obj.faces)
        /\ \A i \in 0..(Len(obj.faces) - 1) :
               LET fc == obj.faces[i + 1]
               IN  /\ edgeHashes.byFace[i + 1] =
                          <<KeyOf(fc[1], fc[2]), KeyOf(fc[2], fc[3]), KeyOf(fc[3], fc[1])>>
                   /\ \A k \in 0..2 :
                          edgeHashes.byEdge[3 * i + k + 1] = edgeHashes.byFace[i + 1][k + 1]
        /\ \A pos \in 0..(Len(edgeHashes.byEdge) - 1) :
               edgeHashes.byEdge[pos + 1] \in Range(edgeHashes.byFace[(pos \div 3) + 1])

\* the face getAdjacentFace gives for the edge at the cursor has the reverse
\* of that edge (its two halves swapped) among its three edges
AdjacentFaceOwnsReverse ==
    (pc = "collect" /\ curEdge < Len(newSurface.edgehash)) =>
        LET h == newSurface.edgehash[curEdge + 1]
            r == getAdjacentFace(newSurface, edgeHashes, curEdge)
        IN  r.kind = "face" =>
                /\ r.face \in FaceIndexes
                /\ <<h[3], h[4], h[1], h[2]>> \in Range(edgeHashes.byFace[r.face + 1])

\* C17: byFace [ i ] holds the keys of the edges (v0,v1), (v1,v2), (v2,v0) of
\* face i in that order; byEdge is its flattening face by face, so that
\* byEdge [ 3i + k ] = byFace [ i ][ k ] and position // 3 of an entry is the
\* face that owns it; the face getAdjacentFace returns for a reverse key has
\* that key among its three edges.
C17_IndexFaithful == IndexFaithful /\ AdjacentFaceOwnsReverse

\* getAdjacentFace is about to give a face that is not among the first two
C17_Witness ==
    /\ pc = "collect"
    /\ curEdge < Len(newSurface.edgehash)
    /\ getAdjacentFace(newSurface, edgeHashes, curEdge).kind = "face"
    /\ getAdjacentFace(newSurface, edgeHashes, curEdge).face >= 2

\* the hash is the number a * 2^32 + b of the two indexes a and b
HashIs(a, b) == keyHash = <<a[3], a[4], b[3], b[4]>>

\* what the hash of two indexes is once it was made: it is a * 2^32 + b, its
\* two halves are a and b, no other two indexes have it, and the indexes
\* swapped have another unless they are equal
KeyLossless ==
    keyStep = "packed" =>
        /\ HashIs(keyA, keyB)
        /\ HashHigh(keyHash) = keyA
        /\ HashLow(keyHash) = keyB
        /\ \A c, d \in SampleIndexes :
               (~Negative(PackHash(c, d)) /\ PackHash(c, d) = keyHash) =>
                   (c = keyA /\ d = keyB)
        /\ keyA # keyB => PackHash(keyB, keyA) # keyHash

\* the reverse hash is the hash of the indexes swapped, b * 2^32 + a, and
\* the reverse of the reverse is the hash again
KeyReverses ==
    /\ keyStep = "reversed" => HashIs(keyB, keyA)
    /\ keyStep = "restored" => HashIs(keyA, keyB)

C18_KeyLosslessWhenMade == KeyLossless /\ KeyReverses

====
